---- MODULE Spec2Model ----
(***************************************************************************)
(* Job orchestration of the audio backend: the upload handler and its      *)
(* dispatch handshake with the task queue, the worker's reports on a job,  *)
(* and the owner-checked client operations (status, download, rename,      *)
(* delete, list) of routers/audio.py.                                       *)
(***************************************************************************)
EXTENDS Integers, Sequences, FiniteSets, TLC

\* ------------------------------------------------------------------ bounds
\* Number of job records the upload handler may create in one behaviour.
MaxJobs == 1

\* Number of rename handlers that may be between their check and their commit.
MaxRenames == 2

\* Number of job records in the specification of list_projects.
MaxListed == 2

\* Number of fresh tokens the authentication routes may generate.
MaxTokens == 3

\* Number of delete_project requests that may be in flight or finished.
MaxDeletes == 2

\* Number of signup and update_username requests that may be in flight or
\* finished.
MaxWriters == 3

\* ------------------------------------------------------------ value domains
\* Python's None.
None == "None"

\* Registered users the identity provider can verify (User.id).
Users == {"u1", "u2"}

\* Values a caller may send in the X-Guest-ID header.
GuestIds == {"g1", "g2"}

\* Result of get_optional_current_user: a verified user, or None.
Credentials == Users \cup {None}

\* request.headers.get("X-Guest-ID"): a value, or None when the header is absent.
GuestHeaders == GuestIds \cup {None}

\* Job ids a caller may name in a path; ids not (or no longer) in the store included.
JobIds == 1..MaxJobs

\* settings.max_file_size_mb
MaxFileSizeMb == 10

\* max_size_bytes = settings.max_file_size_mb * 1024 * 1024
MaxSizeBytes == MaxFileSizeMb * 1024 * 1024

\* settings.allowed_audio_formats
AllowedAudioFormats == {".wav", ".mp3"}

\* Uploaded file names, as (stem, extension) of os.path.splitext.
Filenames ==
    { [stem |-> "song", ext |-> ".wav"], [stem |-> "song", ext |-> ".WAV"],
      [stem |-> "song", ext |-> ".xyz"], [stem |-> "song", ext |-> ""] }

\* Uploaded file sizes in bytes, around the ceiling.
FileSizes == {2 * 1024 * 1024, MaxSizeBytes, MaxSizeBytes + 1}

\* Progress values a worker may report (percent of 1.0).
ProgressValues == {0, 50, 100}

\* Names a rename request may carry.
ProjectNames == {"A", "B"}

\* Job ids of the specification of list_projects.
ListedIds == 1..MaxListed

\* The status query parameter of list_projects: absent, empty, or a value.
StatusFilters == {None, "", "pending", "processing", "completed", "failed"}

\* skip: int = Query(0, ge=0)
Skips == 0..MaxListed

\* limit: int = Query(50, ge=1, le=100)
Limits == 1..MaxListed

\* str.lower() on the extensions in use.
Lower(s) == IF s = ".WAV" THEN ".wav" ELSE s

\* file_extension = os.path.splitext(file.filename)[1].lower()
FileExtension(fn) == Lower(fn.ext)

\* None in a path column.
NoPath == <<"none", 0>>

\* The stored input file of the job created with id j (upload_dir/<uuid><ext>).
InputPath(j) == <<"in", j>>

\* The output file the worker writes for job j.
OutputPath(j) == <<"out", j>>

\* The error message of the upload handler's except block (never empty).
QueueErrorMessage == "Failed to queue processing task"

\* The error message a worker reports with a failed job.
WorkerErrorMessage == "Processing failed"

TerminalStatuses == {"completed", "failed"}

\* The queues of the worker pool (queue= of send_task, and the maintenance queue).
QueueNames == {"audio_processing", "maintenance"}

\* Workers that may run and reply to the broker's inspect broadcast.
WorkerNames == {"w1", "w2"}

\* The scheduled or the reserved task list of one worker, each task given by
\* t.get('delivery_info', {}).get('routing_key') (None when it carries none).
TaskLists ==
    { << >>, <<"audio_processing">>, <<"maintenance", "audio_processing">>, <<None>> }

\* What one running worker answers to active_queues, scheduled and reserved.
WorkerReplies ==
    [queues : SUBSET QueueNames, scheduled : TaskLists, reserved : TaskLists]

\* A reachable broker with no worker running: every inspect call gets no reply.
NoWorkers == [broker |-> "up", workers |-> << >>]

\* The timeout argument of the health operations, in seconds (their defaults
\* and the value the /health endpoint passes).
Timeouts == {2, 3, 5}

VARIABLES
    jobs,      \* the job store: job_id -> AudioProcessingJob row
    files,     \* the file storage: the set of paths that exist
    sent,      \* job ids whose task was submitted to the audio_processing queue
    handler,   \* job ids whose upload handler is between send_task and its return
    nextId,    \* the next job id the store assigns
    last,      \* the response of the request that completed last
    renames,   \* rename handlers between their authorization check and their commit
    pool,      \* the worker pool as the broker's inspect calls find it
    accounts,  \* the users table: email -> User row
    blacklist, \* the token_blacklist table: the tokens logout has stored
    issued,    \* the access and refresh tokens login and refresh have signed
    minted,    \* how many fresh tokens (random or signed) were generated so far
    deletes,   \* the delete_project requests in flight, each at its own step
    users,     \* the users table row by row: id -> email and username
    writers,   \* the signup and update_username requests in flight
    summary    \* the get_worker_health_summary call in flight

vars == <<jobs, files, sent, handler, nextId, last, renames, pool,
          accounts, blacklist, issued, minted,
          deletes, users, writers, summary>>

\* The handlers that are followed step by step.
stepVars == <<deletes, users, writers, summary>>

\* The tables of the authentication routes.
authVars == <<accounts, blacklist, issued, minted>>

\* The variables the job handlers and the worker reports do not touch.
others == <<renames, pool, accounts, blacklist, issued, minted, stepVars>>

\* The variables the authentication routes do not touch.
jobVars == <<jobs, files, sent, handler, nextId, last, renames, pool, stepVars>>

NoResponse == [op |-> "none", code |-> 0, detail |-> "none"]

Response(op, code, detail) == [op |-> op, code |-> code, detail |-> detail]

\* No health summary is being computed.
NoSummary == [pc |-> "idle"]

Init ==
    /\ jobs = << >>
    /\ files = {}
    /\ sent = {}
    /\ handler = {}
    /\ nextId = 1
    /\ last = NoResponse
    /\ renames = {}
    /\ pool = NoWorkers
    /\ accounts = << >>
    /\ blacklist = {}
    /\ issued = {}
    /\ minted = 0
    /\ deletes = << >>
    /\ users = << >>
    /\ writers = << >>
    /\ summary = NoSummary

\* ------------------------------------------------------------------ upload
\* user_id = current_user.id if current_user else None
UploadUserId(cred) == IF cred /= None THEN cred ELSE None

\* guest_id = None; if not current_user: guest_id = request.headers.get("X-Guest-ID")
\* (the request object is always passed, so no uuid is ever generated)
UploadGuestId(cred, hdr) == IF cred = None THEN hdr ELSE None

\* AudioProcessingJob(...) as inserted by db.add / db.commit
NewJob(cred, hdr, id) ==
    [ user_id          |-> UploadUserId(cred),
      guest_id         |-> UploadGuestId(cred, hdr),
      input_file_path  |-> InputPath(id),
      status           |-> "pending",
      progress         |-> 0,
      output_file_path |-> NoPath,
      error_message    |-> None,
      celery_task_id   |-> None,
      project_name     |-> None,
      created_at       |-> id ]

\* settings.file_expiry_hours: the values the configuration may carry.
FileExpiryHours == {0, 1, 24}

\* Seconds between the handler reading the clock for expires_at and the store
\* stamping created_at on the inserted row.
InsertDelays == {0, 1, 3600}

\* expires_at = datetime.now(timezone.utc) + timedelta(hours=settings.file_expiry_hours),
\* in seconds, with now the handler's reading of the clock.
ExpiresAt(now, hours) == now + hours * 3600

\* created_at of the row db.add / db.commit inserts: the clock at the insert.
CreatedAt(now, delay) == now + delay

\* try: task = send_task(...); job.job_metadata = {"celery_task_id": task.id}; commit
DispatchSucceeded(job) == [job EXCEPT !.celery_task_id = "task"]

\* A handler whose except block only logs the failure.
MarkQueueFailed_LogOnly(job) == job

\* except Exception: job.status = "failed"; job.error_message = ...; commit
\* (an UPDATE of these two columns only)
MarkQueueFailed(job) ==
    [job EXCEPT !.status = "failed", !.error_message = QueueErrorMessage]

\* An upload whose send_task failure leaves the handler as an exception.
CreationResponse_Raises(job) == Response("upload", 500, "Internal Server Error")

\* return AudioUploadResponse(job_id=job.job_id, status=job.status, ...): the
\* creation response, carrying the status the row has when the handler returns.
CreationResponse(job) == Response("upload", 201, job.status)

\* The upload passes the validation of format and of size.
ValidFile(fn, size) ==
    FileExtension(fn) \in AllowedAudioFormats /\ ~(size > MaxSizeBytes)

\* A size check that raises without removing the file it saved.
RemoveOversized_FileKept(fs, path) == fs

\* The size check's clean-up: os.remove(absolute_file_path)
RemoveOversized(fs, path) == fs \ {path}

\* What upload_audio has done when send_task returns or raises: the values of
\* the store, the storage, the queue, the in-flight handlers and the id counter,
\* and the response when the handler has returned (NoResponse while it goes on
\* to track_file_upload). sendOk is the outcome of celery_app.send_task: the
\* task is queued, or the call raises and the except block runs.
UploadOutcome(cred, hdr, fn, size, sendOk) ==
    LET id == nextId
        path == InputPath(id)
        saved == files \cup {path}
        same == [jobs |-> jobs, files |-> files, sent |-> sent,
                 handler |-> handler, nextId |-> nextId, response |-> NoResponse]
    IN  IF FileExtension(fn) \notin AllowedAudioFormats
        THEN [same EXCEPT
                !.response = Response("upload", 400, "Unsupported file format")]
        ELSE IF size > MaxSizeBytes
        THEN [same EXCEPT
                !.files = RemoveOversized(saved, path),
                !.response = Response("upload", 413, "File too large")]
        ELSE IF sendOk
        THEN [same EXCEPT
                !.files = saved,
                !.nextId = id + 1,
                !.jobs = (id :> DispatchSucceeded(NewJob(cred, hdr, id))) @@ jobs,
                !.sent = sent \cup {id},
                !.handler = handler \cup {id}]
        ELSE [same EXCEPT
                !.files = saved,
                !.nextId = id + 1,
                !.jobs = (id :> MarkQueueFailed(NewJob(cred, hdr, id))) @@ jobs,
                !.response = CreationResponse(MarkQueueFailed(NewJob(cred, hdr, id)))]

\* upload_audio up to the return of send_task (and to its own return when
\* the file is rejected or send_task raises).
UploadAudio(cred, hdr, fn, size, sendOk) ==
    LET o == UploadOutcome(cred, hdr, fn, size, sendOk)
    IN  /\ jobs' = o.jobs
        /\ files' = o.files
        /\ sent' = o.sent
        /\ handler' = o.handler
        /\ nextId' = o.nextId
        /\ last' = IF o.response = NoResponse THEN last ELSE o.response
        /\ UNCHANGED others

\* The rest of upload_audio, from track_file_upload to the return: the store
\* and the response. trackOk is the outcome of track_file_upload: it returns,
\* or it raises inside the try block of send_task and the except block runs.
TrackOutcome(j, trackOk) ==
    IF j \notin DOMAIN jobs
    THEN [jobs |-> jobs, last |-> Response("upload", 500, "job row is gone")]
    ELSE IF trackOk
    THEN [jobs |-> jobs, last |-> CreationResponse(jobs[j])]
    ELSE [jobs |-> [jobs EXCEPT ![j] = MarkQueueFailed(@)],
          last |-> CreationResponse(MarkQueueFailed(jobs[j]))]

UploadTrack(j, trackOk) ==
    /\ j \in handler
    /\ handler' = handler \ {j}
    /\ jobs' = TrackOutcome(j, trackOk).jobs
    /\ last' = TrackOutcome(j, trackOk).last
    /\ UNCHANGED <<files, sent, nextId>>
    /\ UNCHANGED others

\* ---------------------------------------------------------- worker reports
\* The worker's pickup of a queued task: pending -> processing.
ReportStarted(j) ==
    /\ j \in sent
    /\ j \in DOMAIN jobs
    /\ jobs[j].status = "pending"
    /\ jobs' = [jobs EXCEPT ![j].status = "processing"]
    /\ UNCHANGED <<files, sent, handler, nextId, last>>
    /\ UNCHANGED others

\* A progress report that is stored as it arrives.
ProgressApplied_Unchecked(job, p) == [job EXCEPT !.progress = p]

\* report_progress(job_id, progress): accepted only while processing, and
\* only a value not lower than the stored one.
ProgressApplied(job, p) ==
    IF job.status = "processing" /\ p >= job.progress
    THEN [job EXCEPT !.progress = p]
    ELSE job

ReportProgress(j, p) ==
    /\ j \in sent
    /\ j \in DOMAIN jobs
    /\ jobs' = [jobs EXCEPT ![j] = ProgressApplied(@, p)]
    /\ UNCHANGED <<files, sent, handler, nextId, last>>
    /\ UNCHANGED others

\* report_terminal(job_id, status, output_path?, error_message?): a no-op on a
\* job that is already terminal.
TerminalApplied(job, j, st) ==
    IF job.status \in TerminalStatuses
    THEN job
    ELSE IF st = "completed"
    THEN [job EXCEPT !.status = "completed", !.output_file_path = OutputPath(j)]
    ELSE [job EXCEPT !.status = "failed", !.error_message = WorkerErrorMessage]

ReportTerminal(j, st) ==
    /\ j \in sent
    /\ j \in DOMAIN jobs
    /\ jobs' = [jobs EXCEPT ![j] = TerminalApplied(@, j, st)]
    /\ files' = IF jobs[j].status \notin TerminalStatuses /\ st = "completed"
                THEN files \cup {OutputPath(j)}
                ELSE files
    /\ UNCHANGED <<sent, handler, nextId, last>>
    /\ UNCHANGED others

\* The storage backend loses a file behind the program's back.
StorageLoss(path) ==
    /\ path \in files
    /\ files' = files \ {path}
    /\ UNCHANGED <<jobs, sent, handler, nextId, last>>
    /\ UNCHANGED others

\* -------------------------------------------------------- client operations
\* An authorization check whose guest branch compares the ids without first
\* requiring the header to be present.
AccessCode_NoHeaderGuard(j, cred, hdr) ==
    IF j \notin DOMAIN jobs
    THEN 404
    ELSE IF cred /= None
    THEN (IF jobs[j].user_id /= cred THEN 403 ELSE 200)
    ELSE IF jobs[j].guest_id /= hdr
    THEN 403
    ELSE 200

\* The lookup and the authorization check shared by get_job_status,
\* download_processed_audio, rename_project and delete_project:
\* 404 when the row is missing, 403 when the caller does not own it, else 200.
AccessCode(j, cred, hdr) ==
    IF j \notin DOMAIN jobs
    THEN 404
    ELSE IF cred /= None
    THEN (IF jobs[j].user_id /= cred THEN 403 ELSE 200)
    ELSE IF hdr = None \/ jobs[j].guest_id /= hdr
    THEN 403
    ELSE 200

AccessDetail(code) ==
    IF code = 404 THEN "not found" ELSE IF code = 403 THEN "not authorized" ELSE "ok"

\* An output_available that looks at the output path alone.
OutputAvailable_PathOnly(job) == job.output_file_path /= NoPath

\* output_available=(job.status == "completed" and job.output_file_path is not None)
OutputAvailable(job) == job.status = "completed" /\ job.output_file_path /= NoPath

\* get_job_status: the response for caller (cred, hdr) on job j.
StatusResponse(j, cred, hdr) ==
    LET code == AccessCode(j, cred, hdr)
    IN  IF code /= 200
        THEN Response("status", code, AccessDetail(code))
        ELSE Response("status", 200,
                 [status |-> jobs[j].status, progress |-> jobs[j].progress,
                  error_message |-> jobs[j].error_message,
                  output_available |-> OutputAvailable(jobs[j])])

\* get_job_status reads the store and changes nothing.
GetJobStatus(j, cred, hdr) ==
    /\ StatusResponse(j, cred, hdr).op = "status"
    /\ UNCHANGED vars

\* A download handler that validates the status before the ownership.
DownloadResponse_StatusFirst(j, cred, hdr, trackOk) ==
    IF j \notin DOMAIN jobs
    THEN Response("download", 404, "not found")
    ELSE IF jobs[j].status /= "completed"
    THEN Response("download", 400, "not completed")
    ELSE IF AccessCode(j, cred, hdr) /= 200
    THEN Response("download", 403, "not authorized")
    ELSE IF jobs[j].output_file_path = NoPath
    THEN Response("download", 500, "output path not set")
    ELSE IF jobs[j].output_file_path \notin files
    THEN Response("download", 500, "file not found")
    ELSE IF ~trackOk
    THEN Response("download", 500, "unhandled exception")
    ELSE Response("download", 200, "file")

\* download_processed_audio: the response for caller (cred, hdr) on job j, where
\* trackOk is the outcome of track_file_download (it returns, or it raises and
\* the exception leaves the handler).
DownloadResponse(j, cred, hdr, trackOk) ==
    LET code == AccessCode(j, cred, hdr)
    IN  IF code /= 200
        THEN Response("download", code, AccessDetail(code))
        ELSE IF jobs[j].status /= "completed"
        THEN Response("download", 400, "not completed")
        ELSE IF jobs[j].output_file_path = NoPath
        THEN Response("download", 500, "output path not set")
        ELSE IF jobs[j].output_file_path \notin files
        THEN Response("download", 500, "file not found")
        ELSE IF ~trackOk
        THEN Response("download", 500, "unhandled exception")
        ELSE Response("download", 200, "file")

\* A download that records the usage event as soon as the caller is authorized.
DownloadTracked_BeforeChecks(j, cred, hdr) == AccessCode(j, cred, hdr) = 200

\* download_processed_audio reaches its call of track_file_download: the job
\* exists, the caller owns it, it is completed, its output path is set and the
\* file exists.
DownloadTracked(j, cred, hdr) ==
    /\ AccessCode(j, cred, hdr) = 200
    /\ jobs[j].status = "completed"
    /\ jobs[j].output_file_path /= NoPath
    /\ jobs[j].output_file_path \in files

\* download_processed_audio reads the store and changes nothing.
DownloadProcessedAudio(j, cred, hdr, trackOk) ==
    /\ DownloadResponse(j, cred, hdr, trackOk).op = "download"
    /\ UNCHANGED vars

\* rename_project: the response for caller (cred, hdr) on job j.
RenameResponse(j, cred, hdr) ==
    Response("rename", AccessCode(j, cred, hdr), AccessDetail(AccessCode(j, cred, hdr)))

\* A rename that writes the row back as a new submission would be written.
RenameOutcome_ResetsStatus(j, cred, hdr, name) ==
    IF AccessCode(j, cred, hdr) = 200
    THEN [jobs EXCEPT ![j].project_name = name, ![j].status = "pending"]
    ELSE jobs

\* rename_project: the store after the request.
RenameOutcome(j, cred, hdr, name) ==
    IF AccessCode(j, cred, hdr) = 200
    THEN [jobs EXCEPT ![j].project_name = name]
    ELSE jobs

RenameProject(j, cred, hdr, name) ==
    /\ jobs' = RenameOutcome(j, cred, hdr, name)
    /\ UNCHANGED <<files, sent, handler, nextId, last>>
    /\ UNCHANGED others

\* rename_project up to its authorization check: the handler has loaded the row
\* in its own session (seen is the project_name it loaded) and holds the name
\* it was asked to store. A request that is refused (404, 403) ends here and
\* changes nothing.
RenameBegin(j, cred, hdr, name) ==
    /\ Cardinality(renames) < MaxRenames
    /\ renames' = IF AccessCode(j, cred, hdr) = 200
                  THEN renames \cup {[job |-> j, name |-> name,
                                       seen |-> jobs[j].project_name]}
                  ELSE renames
    /\ UNCHANGED <<jobs, files, sent, handler, nextId, last, pool>>
    /\ UNCHANGED authVars
    /\ UNCHANGED stepVars

\* A commit that interleaves its write with the name another request stored.
RenameCommitted_Mixed(js, r) ==
    IF r.job \notin DOMAIN js
    THEN js
    ELSE IF js[r.job].project_name \in ProjectNames \ {r.name}
    THEN [js EXCEPT ![r.job].project_name = "mixed"]
    ELSE [js EXCEPT ![r.job].project_name = r.name]

\* job.project_name = body.project_name; db.commit(): an UPDATE of the one
\* column the session changed, which matches no row when the job was deleted.
RenameCommitted(js, r) ==
    IF r.job \in DOMAIN js
    THEN [js EXCEPT ![r.job].project_name = r.name]
    ELSE js

\* rename_project from the assignment of project_name to its return.
RenameCommit(r) ==
    /\ r \in renames
    /\ renames' = renames \ {r}
    /\ jobs' = RenameCommitted(jobs, r)
    /\ UNCHANGED <<files, sent, handler, nextId, last, pool>>
    /\ UNCHANGED authVars
    /\ UNCHANGED stepVars

\* The store without the row of job j (db.delete(job); db.commit()).
WithoutJob(js, j) == [k \in DOMAIN js \ {j} |-> js[k]]

\* A delete that removes the uploaded file and leaves the processed one.
DeletedFiles_InputOnly(job) ==
    {p \in {job.input_file_path} : p /= NoPath /\ p \in files}

\* The files delete_project removes: those of the two paths that are set and exist.
DeletedFiles(job) ==
    {p \in {job.input_file_path, job.output_file_path} : p /= NoPath /\ p \in files}

\* delete_project: the response for caller (cred, hdr) on job j.
DeleteResponse(j, cred, hdr) ==
    Response("delete", AccessCode(j, cred, hdr), AccessDetail(AccessCode(j, cred, hdr)))

\* delete_project: the store and the storage after the request.
DeleteOutcome(j, cred, hdr) ==
    IF AccessCode(j, cred, hdr) = 200
    THEN [jobs |-> WithoutJob(jobs, j), files |-> files \ DeletedFiles(jobs[j])]
    ELSE [jobs |-> jobs, files |-> files]

DeleteProject(j, cred, hdr) ==
    /\ jobs' = DeleteOutcome(j, cred, hdr).jobs
    /\ files' = DeleteOutcome(j, cred, hdr).files
    /\ UNCHANGED <<sent, handler, nextId, last>>
    /\ UNCHANGED others

\* delete_project step by step: each request holds the row its own session
\* loaded and stands before one of the steps of the handler.
DeleteRequest(j, job, pc, response) ==
    [job_id |-> j, job |-> job, pc |-> pc, response |-> response]

\* A request d moves to step pc.
DeleteMoves(d, pc) == deletes' = [deletes EXCEPT ![d].pc = pc]

\* A request d ends with a response.
DeleteEnds(d, response) ==
    deletes' = [deletes EXCEPT ![d].pc = "done", ![d].response = response]

\* job = db.query(...).first(), the 404 and the ownership check.
DeleteLookup(j, cred, hdr) ==
    /\ Len(deletes) < MaxDeletes
    /\ LET code == AccessCode(j, cred, hdr) IN
         deletes' = Append(deletes,
            IF code = 200
            THEN DeleteRequest(j, jobs[j], "input_check", Response("delete", 0, "pending"))
            ELSE DeleteRequest(j, None, "done", DeleteResponse(j, cred, hdr)))
    /\ UNCHANGED <<jobs, files, sent, handler, nextId, last, renames, pool>>
    /\ UNCHANGED <<authVars, users, writers, summary>>

\* The path a step of the handler looks at.
DeletePath(d) ==
    IF deletes[d].pc \in {"input_check", "input_remove"}
    THEN deletes[d].job.input_file_path
    ELSE deletes[d].job.output_file_path

\* The step after the file of the current path is dealt with.
DeleteAfter(pc) == IF pc \in {"input_check", "input_remove"} THEN "output_check" ELSE "commit"

\* if job.<path> and os.path.exists(job.<path>)
DeleteExistsCheck(d) ==
    /\ deletes[d].pc \in {"input_check", "output_check"}
    /\ IF DeletePath(d) /= NoPath /\ DeletePath(d) \in files
       THEN DeleteMoves(d, IF deletes[d].pc = "input_check"
                           THEN "input_remove" ELSE "output_remove")
       ELSE DeleteMoves(d, DeleteAfter(deletes[d].pc))
    /\ UNCHANGED <<jobs, files, sent, handler, nextId, last, renames, pool>>
    /\ UNCHANGED <<authVars, users, writers, summary>>

\* os.remove(path): FileNotFoundError when the file is gone.
RemoveFile(d) ==
    IF DeletePath(d) \in files
    THEN [ok |-> TRUE, files |-> files \ {DeletePath(d)}]
    ELSE [ok |-> FALSE, files |-> files]

\* os.remove(job.<path>); nothing in the handler catches its exception.
DeleteRemove(d) ==
    /\ deletes[d].pc \in {"input_remove", "output_remove"}
    /\ files' = RemoveFile(d).files
    /\ IF RemoveFile(d).ok
       THEN DeleteMoves(d, DeleteAfter(deletes[d].pc))
       ELSE DeleteEnds(d, Response("delete", 500, "FileNotFoundError"))
    /\ UNCHANGED <<jobs, sent, handler, nextId, last, renames, pool>>
    /\ UNCHANGED <<authVars, users, writers, summary>>

\* db.delete(job); db.commit(): the DELETE of a row that is already gone
\* matches no row and the handler answers as after any other delete.
DeleteCommit(d) ==
    /\ deletes[d].pc = "commit"
    /\ jobs' = WithoutJob(jobs, deletes[d].job_id)
    /\ DeleteEnds(d, Response("delete", 200, "deleted"))
    /\ UNCHANGED <<files, sent, handler, nextId, last, renames, pool>>
    /\ UNCHANGED <<authVars, users, writers, summary>>

\* list_projects: 401 when neither a user nor a guest id resolves.
ListCode(cred, hdr) == IF cred = None /\ hdr = None THEN 401 ELSE 200

\* A query that filters by status alone, with no scoping to the caller.
ListMatches_Unscoped(cred, hdr, filter) ==
    {j \in DOMAIN jobs : filter \in {None, ""} \/ jobs[j].status = filter}

\* query.filter(user_id == user_id) for a user, else filter(guest_id == guest_id);
\* if status_filter: query.filter(status == status_filter)
ListMatches(cred, hdr, filter) ==
    {j \in DOMAIN jobs :
        /\ IF cred /= None THEN jobs[j].user_id = cred ELSE jobs[j].guest_id = hdr
        /\ filter \in {None, ""} \/ jobs[j].status = filter}

\* query.order_by(desc(AudioProcessingJob.created_at)): the ids of the rows of
\* S, the row created last first.
RECURSIVE OrderByCreatedDesc(_)
OrderByCreatedDesc(S) ==
    IF S = {}
    THEN << >>
    ELSE LET m == CHOOSE j \in S : \A k \in S : jobs[k].created_at <= jobs[j].created_at
         IN  <<m>> \o OrderByCreatedDesc(S \ {m})

\* query.offset(skip).limit(limit).all()
OffsetLimit(rows, skip, limit) ==
    SubSeq(rows, skip + 1, IF skip + limit < Len(rows) THEN skip + limit ELSE Len(rows))

\* list_projects: the response for caller (cred, hdr), the rows given by id.
ListResponse(cred, hdr, filter, skip, limit) ==
    IF ListCode(cred, hdr) = 401
    THEN Response("list", 401, "Not authenticated")
    ELSE Response("list", 200,
             OffsetLimit(OrderByCreatedDesc(ListMatches(cred, hdr, filter)), skip, limit))

\* list_projects reads the store and changes nothing.
ListProjects(cred, hdr, filter, skip, limit) ==
    /\ ListResponse(cred, hdr, filter, skip, limit).op = "list"
    /\ UNCHANGED vars

\* ------------------------------------------------------------ worker health
\* celery_app.control.inspect(timeout=timeout).<probe>(): the call raises when
\* the broker cannot be reached, returns None when no worker replies within
\* the timeout, and otherwise a dict with one entry per replying worker.
Inspect(p, field) ==
    IF p.broker = "down"
    THEN [kind |-> "raised", reply |-> << >>]
    ELSE IF DOMAIN p.workers = {}
    THEN [kind |-> "none", reply |-> << >>]
    ELSE [kind |-> "reply", reply |-> [w \in DOMAIN p.workers |-> p.workers[w][field]]]

\* The time one inspect call takes: it collects replies for the whole timeout
\* when the broker is reachable, and fails at once when it is not.
ProbeWait(p, timeout) == IF p.broker = "down" THEN 0 ELSE timeout

\* inspect.stats(): one entry per replying worker; the check reads its keys only.
InspectStats(p) ==
    [Inspect(p, "queues") EXCEPT !.reply = [w \in DOMAIN @ |-> "stats"]]

\* _check_workers_available_sync
CheckWorkersAvailable(p) ==
    LET stats == InspectStats(p)
        active_queues == Inspect(p, "queues")
    IN  IF stats.kind = "raised"
        THEN [available |-> FALSE, worker_count |-> 0, workers |-> {}, queues |-> {},
              error |-> "Unable to connect to workers"]
        ELSE IF stats.kind = "none"
        THEN [available |-> FALSE, worker_count |-> 0, workers |-> {}, queues |-> {},
              error |-> "No workers are currently running. Please start the worker service."]
        ELSE [available |-> TRUE,
              worker_count |-> Cardinality(DOMAIN stats.reply),
              workers |-> DOMAIN stats.reply,
              queues |-> UNION {active_queues.reply[w] : w \in DOMAIN active_queues.reply},
              error |-> None]

\* The probes _check_workers_available_sync makes one after the other: stats,
\* and active_queues when stats brought a reply.
CheckWorkersElapsed(p, timeout) ==
    IF InspectStats(p).kind = "reply"
    THEN ProbeWait(p, timeout) + ProbeWait(p, timeout)
    ELSE ProbeWait(p, timeout)

\* _check_queue_available_sync
CheckQueueAvailable(p, queue_name) ==
    LET active_queues == Inspect(p, "queues")
    IN  /\ active_queues.kind = "reply"
        /\ \E w \in DOMAIN active_queues.reply : queue_name \in active_queues.reply[w]

\* len([t for t in tasks if t.get('delivery_info', {}).get('routing_key') == queue_name])
RECURSIVE CountRouted(_, _)
CountRouted(tasks, queue_name) ==
    IF tasks = << >>
    THEN 0
    ELSE (IF Head(tasks) = queue_name THEN 1 ELSE 0) + CountRouted(Tail(tasks), queue_name)

\* for tasks in <reply>.values(): count += len([...])
RECURSIVE CountReplies(_, _, _)
CountReplies(reply, ws, queue_name) ==
    IF ws = {}
    THEN 0
    ELSE LET w == CHOOSE x \in ws : TRUE
         IN  CountRouted(reply[w], queue_name) + CountReplies(reply, ws \ {w}, queue_name)

\* _get_queue_length_sync: -1 from the except block, else the count, which
\* stays 0 when scheduled() and reserved() return None.
GetQueueLength(p, queue_name) ==
    LET scheduled == Inspect(p, "scheduled")
        reserved == Inspect(p, "reserved")
    IN  IF scheduled.kind = "raised" \/ reserved.kind = "raised"
        THEN -1
        ELSE CountReplies(scheduled.reply, DOMAIN scheduled.reply, queue_name)
             + CountReplies(reserved.reply, DOMAIN reserved.reply, queue_name)

\* get_worker_health_summary
WorkerHealthSummary(p) ==
    LET h == CheckWorkersAvailable(p)
        audio_queue_ok == CheckQueueAvailable(p, "audio_processing")
        maintenance_queue_ok == CheckQueueAvailable(p, "maintenance")
    IN  [available |-> h.available, worker_count |-> h.worker_count,
         workers |-> h.workers, queues |-> h.queues, error |-> h.error,
         audio_processing_queue_ok |-> audio_queue_ok,
         maintenance_queue_ok |-> maintenance_queue_ok,
         audio_queue_length |->
             IF audio_queue_ok THEN GetQueueLength(p, "audio_processing") ELSE -1,
         status |-> IF h.available /\ audio_queue_ok THEN "healthy" ELSE "unhealthy",
         message |-> IF ~h.available THEN h.error ELSE "Workers are operational"]

\* get_worker_health_summary_sync: the same calls on the calling thread.
WorkerHealthSummarySync(p) ==
    LET h == CheckWorkersAvailable(p)
        audio_queue_ok == CheckQueueAvailable(p, "audio_processing")
        maintenance_queue_ok == CheckQueueAvailable(p, "maintenance")
    IN  [available |-> h.available, worker_count |-> h.worker_count,
         workers |-> h.workers, queues |-> h.queues, error |-> h.error,
         audio_processing_queue_ok |-> audio_queue_ok,
         maintenance_queue_ok |-> maintenance_queue_ok,
         audio_queue_length |->
             IF audio_queue_ok THEN GetQueueLength(p, "audio_processing") ELSE -1,
         status |-> IF h.available /\ audio_queue_ok THEN "healthy" ELSE "unhealthy",
         message |-> IF ~h.available THEN h.error ELSE "Workers are operational"]

\* The probes of either summary, each awaited before the next starts: the
\* worker check, the two queue checks, and the two probes of the queue length
\* when the audio queue is listened to.
SummaryElapsed(p, timeout) ==
    CheckWorkersElapsed(p, timeout)
    + ProbeWait(p, timeout) + ProbeWait(p, timeout)
    + (IF CheckQueueAvailable(p, "audio_processing")
       THEN ProbeWait(p, timeout) + ProbeWait(p, timeout)
       ELSE 0)

\* health_check of main.py: one active_queues probe; the overall status is the
\* API's and is written as a constant.
HealthCheckResponse(p) ==
    LET active_queues == Inspect(p, "queues")
        worker_count == IF active_queues.kind = "reply"
                        THEN Cardinality(DOMAIN active_queues.reply) ELSE 0
        available == worker_count > 0
    IN  [status |-> "healthy",
         workers |-> [status |-> IF available THEN "operational" ELSE "unavailable",
                      available |-> available,
                      count |-> worker_count,
                      queues |-> IF available
                                 THEN UNION {active_queues.reply[w] :
                                                w \in DOMAIN active_queues.reply}
                                 ELSE {},
                      warning |-> IF active_queues.kind = "raised"
                                  THEN "broker error" ELSE None]]

\* A worker starts and from now on replies to the inspect calls.
WorkerStarts(w, r) ==
    /\ w \notin DOMAIN pool.workers
    /\ pool' = [pool EXCEPT !.workers = (w :> r) @@ @]
    /\ UNCHANGED <<jobs, files, sent, handler, nextId, last, renames>>
    /\ UNCHANGED authVars
    /\ UNCHANGED stepVars

\* A running worker subscribes to other queues or holds other tasks.
WorkerChanges(w, r) ==
    /\ w \in DOMAIN pool.workers
    /\ pool.workers[w] /= r
    /\ pool' = [pool EXCEPT !.workers[w] = r]
    /\ UNCHANGED <<jobs, files, sent, handler, nextId, last, renames>>
    /\ UNCHANGED authVars
    /\ UNCHANGED stepVars

\* A worker stops, or stops replying.
WorkerStops(w) ==
    /\ w \in DOMAIN pool.workers
    /\ pool' = [pool EXCEPT !.workers = [x \in DOMAIN @ \ {w} |-> @[x]]]
    /\ UNCHANGED <<jobs, files, sent, handler, nextId, last, renames>>
    /\ UNCHANGED authVars
    /\ UNCHANGED stepVars

\* The broker becomes unreachable, or reachable again.
BrokerSwitches ==
    /\ pool' = [pool EXCEPT !.broker = IF @ = "up" THEN "down" ELSE "up"]
    /\ UNCHANGED <<jobs, files, sent, handler, nextId, last, renames>>
    /\ UNCHANGED authVars
    /\ UNCHANGED stepVars

\* The health operations read the pool and change nothing.
CheckWorkersAvailableSync(timeout) ==
    /\ CheckWorkersAvailable(pool).worker_count >= 0
    /\ CheckWorkersElapsed(pool, timeout) >= 0
    /\ UNCHANGED vars

CheckQueueAvailableSync(queue_name, timeout) ==
    /\ CheckQueueAvailable(pool, queue_name) \in BOOLEAN
    /\ ProbeWait(pool, timeout) >= 0
    /\ UNCHANGED vars

GetQueueLengthSync(queue_name, timeout) ==
    /\ GetQueueLength(pool, queue_name) >= -1
    /\ UNCHANGED vars

GetWorkerHealthSummary(timeout) ==
    /\ WorkerHealthSummary(pool).status \in {"healthy", "unhealthy"}
    /\ SummaryElapsed(pool, timeout) >= 0
    /\ UNCHANGED vars

GetWorkerHealthSummarySync(timeout) ==
    /\ WorkerHealthSummarySync(pool).status \in {"healthy", "unhealthy"}
    /\ SummaryElapsed(pool, timeout) >= 0
    /\ UNCHANGED vars

HealthCheck ==
    /\ HealthCheckResponse(pool).status = "healthy"
    /\ UNCHANGED vars

\* get_worker_health_summary probe by probe: each await hands the loop back,
\* and the pool is free to change before the next probe is sent.

\* The dictionary the summary returns, from the results of its probes.
SummaryRecord(h, audio_queue_ok, maintenance_queue_ok, audio_queue_length) ==
    [available |-> h.available, worker_count |-> h.worker_count,
     workers |-> h.workers, queues |-> h.queues, error |-> h.error,
     audio_processing_queue_ok |-> audio_queue_ok,
     maintenance_queue_ok |-> maintenance_queue_ok,
     audio_queue_length |-> audio_queue_length,
     status |-> IF h.available /\ audio_queue_ok THEN "healthy" ELSE "unhealthy",
     message |-> IF ~h.available THEN h.error ELSE "Workers are operational"]

\* What the call holds before the probe named pc.
SummaryAt(pc, h, audio_queue_ok, maintenance_queue_ok) ==
    [pc |-> pc, health |-> h, audio_queue_ok |-> audio_queue_ok,
     maintenance_queue_ok |-> maintenance_queue_ok]

\* health = await check_workers_available(timeout=timeout)
SummaryProbeWorkers ==
    /\ summary.pc \in {"idle", "done"}
    /\ summary' = SummaryAt("audio", CheckWorkersAvailable(pool), FALSE, FALSE)

\* audio_queue_ok = await check_queue_available('audio_processing', ...)
SummaryProbeAudio ==
    /\ summary.pc = "audio"
    /\ summary' = SummaryAt("maintenance", summary.health,
                            CheckQueueAvailable(pool, "audio_processing"), FALSE)

\* maintenance_queue_ok = await check_queue_available('maintenance', ...)
SummaryProbeMaintenance ==
    /\ summary.pc = "maintenance"
    /\ summary' = SummaryAt("length", summary.health, summary.audio_queue_ok,
                            CheckQueueAvailable(pool, "maintenance"))

\* return {**health, ..., "audio_queue_length": await get_queue_length(...) if
\* audio_queue_ok else -1, ...}
SummaryReturn ==
    /\ summary.pc = "length"
    /\ summary' = [pc |-> "done",
                   result |-> SummaryRecord(summary.health, summary.audio_queue_ok,
                                  summary.maintenance_queue_ok,
                                  IF summary.audio_queue_ok
                                  THEN GetQueueLength(pool, "audio_processing")
                                  ELSE -1)]

\* What a probe of the summary leaves alone.
SummaryFrame ==
    /\ UNCHANGED <<jobs, files, sent, handler, nextId, last, renames, pool>>
    /\ UNCHANGED <<authVars, deletes, users, writers>>

\* ------------------------------------------------------------ authentication

Emails == {"a@x", "b@x"}
Passwords == {"p1", "p2"}

\* The values secrets.token_urlsafe and the token signer produce: each call
\* yields a value no earlier call produced, numbered in order of generation.
TokenSerials == 1..MaxTokens

\* The NULL of a token column.
NoToken == 0

\* get_password_hash and verify_password of the auth module.
GetPasswordHash(password) == <<"hash", password>>
VerifyPassword(password, hashed) == hashed = GetPasswordHash(password)

\* create_access_token / create_refresh_token: a signed token carries its type
\* and the subject it was issued for.
CreateAccessToken(sub, n) == [type |-> "access", sub |-> sub, serial |-> n]
CreateRefreshToken(sub, n) == [type |-> "refresh", sub |-> sub, serial |-> n]

\* A string that is not a token this service signed.
JunkToken == [type |-> "junk", sub |-> None, serial |-> 0]

\* What a client can put in a request: a token it was handed, or anything else.
PresentedTokens == issued \cup {JunkToken}

\* The None verify_token returns in place of a payload.
NoPayload == [type |-> None, sub |-> None]

\* verify_token: the payload of a token that is signed by this service and not
\* expired, None otherwise.
VerifyToken(token, expired) ==
    IF token.type = "junk" \/ expired
    THEN NoPayload
    ELSE [type |-> token.type, sub |-> token.sub]

\* get_token_expiration: the expiry of a token it can decode, None otherwise.
GetTokenExpiration(token, decodes) ==
    IF token.type /= "junk" /\ decodes THEN "exp" ELSE None

\* _publish_event: fire-and-forget, a failing publisher is logged.
PublishEvent_Raises(publishOk) == IF publishOk THEN "returned" ELSE "raised"
PublishEvent(publishOk) == "returned"

\* The User row signup stores.
NewUser(password, verification_token) ==
    [ hashed_password      |-> GetPasswordHash(password),
      is_active            |-> TRUE,
      is_verified          |-> FALSE,
      verification_token   |-> verification_token,
      password_reset_token |-> NoToken ]

\* What a handler leaves behind: the tables and the response.
AuthOutcome(accts, bl, iss, n, response) ==
    [accounts |-> accts, blacklist |-> bl, issued |-> iss, minted |-> n,
     response |-> response]

\* A handler that raised before it committed anything.
AuthRefused(response) == AuthOutcome(accounts, blacklist, issued, minted, response)

\* The response after a publish: an exception of the publish would surface as
\* a 500.
Published(publishOk, response) ==
    IF PublishEvent(publishOk) = "raised"
    THEN Response(response.op, 500, "Internal Server Error")
    ELSE response

\* POST /auth/signup
SignupOutcome(email, password, publishOk) ==
    IF email \in DOMAIN accounts
    THEN AuthRefused(Response("signup", 400, "Email already registered"))
    ELSE AuthOutcome((email :> NewUser(password, minted + 1)) @@ accounts,
                     blacklist, issued, minted + 1,
                     Published(publishOk, Response("signup", 201, email)))

\* The tokens login and refresh hand out.
TokenPair(sub, n) == {CreateAccessToken(sub, n), CreateRefreshToken(sub, n)}

\* POST /auth/login
LoginOutcome(email, password) ==
    IF email \notin DOMAIN accounts
    THEN AuthRefused(Response("login", 401, "Incorrect username/email or password"))
    ELSE IF ~VerifyPassword(password, accounts[email].hashed_password)
    THEN AuthRefused(Response("login", 401, "Incorrect username/email or password"))
    ELSE IF ~accounts[email].is_active
    THEN AuthRefused(Response("login", 403, "User account is inactive"))
    ELSE AuthOutcome(accounts, blacklist, issued \cup TokenPair(email, minted + 1),
                     minted + 1, Response("login", 200, TokenPair(email, minted + 1)))

\* POST /auth/logout
LogoutOutcome(token, decodes) ==
    IF token \in blacklist
    THEN AuthRefused(Response("logout", 400, "Token already invalidated"))
    ELSE IF GetTokenExpiration(token, decodes) = None
    THEN AuthRefused(Response("logout", 401, "Invalid token"))
    ELSE AuthOutcome(accounts, blacklist \cup {token}, issued, minted,
                     Response("logout", 200, "Successfully logged out"))

\* The blacklist check of refresh_access_token.
RefreshBlacklisted_Unchecked(token) == FALSE
RefreshBlacklisted(token) == token \in blacklist

\* POST /auth/refresh
RefreshOutcome(token, expired) ==
    LET payload == VerifyToken(token, expired) IN
    IF payload = NoPayload
    THEN AuthRefused(Response("refresh", 401, "Invalid refresh token"))
    ELSE IF payload.type /= "refresh"
    THEN AuthRefused(Response("refresh", 401, "Invalid token type"))
    ELSE IF RefreshBlacklisted(token)
    THEN AuthRefused(Response("refresh", 401, "Token has been revoked"))
    ELSE IF payload.sub \notin DOMAIN accounts \/ ~accounts[payload.sub].is_active
    THEN AuthRefused(Response("refresh", 401, "User not found or inactive"))
    ELSE AuthOutcome(accounts, blacklist, issued \cup TokenPair(payload.sub, minted + 1),
                     minted + 1, Response("refresh", 200, TokenPair(payload.sub, minted + 1)))

\* The columns verify_email writes.
Verified_KeepsToken(user) == [user EXCEPT !.is_verified = TRUE]
Verified(user) == [user EXCEPT !.is_verified = TRUE, !.verification_token = NoToken]

\* POST /auth/verify-email
VerifyEmailOutcome(token, expired, publishOk) ==
    LET found == {e \in DOMAIN accounts : accounts[e].verification_token = token} IN
    IF found = {}
    THEN AuthRefused(Response("verify_email", 400, "Invalid verification token"))
    ELSE IF expired
    THEN AuthRefused(Response("verify_email", 400, "Verification token has expired"))
    ELSE LET e == CHOOSE e \in found : TRUE IN
         AuthOutcome([accounts EXCEPT ![e] = Verified(accounts[e])],
                     blacklist, issued, minted,
                     Published(publishOk,
                               Response("verify_email", 200, "Email verified successfully")))

\* POST /auth/forgot-password
ForgotPasswordOutcome(email, publishOk) ==
    LET message == Response("forgot_password", 200,
            "If an account with that email exists, a password reset link has been sent")
    IN  IF email \in DOMAIN accounts /\ accounts[email].is_active
        THEN AuthOutcome([accounts EXCEPT ![email].password_reset_token = minted + 1],
                         blacklist, issued, minted + 1, Published(publishOk, message))
        ELSE AuthRefused(message)

\* POST /auth/reset-password
ResetPasswordOutcome(token, new_password, expired) ==
    LET found == {e \in DOMAIN accounts : accounts[e].password_reset_token = token} IN
    IF found = {}
    THEN AuthRefused(Response("reset_password", 400, "Invalid reset token"))
    ELSE IF expired
    THEN AuthRefused(Response("reset_password", 400, "Reset token has expired"))
    ELSE LET e == CHOOSE e \in found : TRUE IN
         AuthOutcome([accounts EXCEPT ![e].hashed_password = GetPasswordHash(new_password),
                                      ![e].password_reset_token = NoToken],
                     blacklist, issued, minted,
                     Response("reset_password", 200, "Password has been reset successfully"))

\* POST /auth/resend-verification
ResendVerificationOutcome(email, publishOk) ==
    LET message == Response("resend_verification", 200,
            "If your account requires verification, a new email has been sent")
    IN  IF /\ email \in DOMAIN accounts
           /\ ~accounts[email].is_verified
           /\ accounts[email].is_active
        THEN AuthOutcome([accounts EXCEPT ![email].verification_token = minted + 1],
                         blacklist, issued, minted + 1, Published(publishOk, message))
        ELSE AuthRefused(message)

\* A handler's outcome written to the tables. A handler that generates a token
\* runs only while the supply of fresh values lasts.
AuthCommit(outcome) ==
    /\ outcome.minted <= MaxTokens
    /\ accounts' = outcome.accounts
    /\ blacklist' = outcome.blacklist
    /\ issued' = outcome.issued
    /\ minted' = outcome.minted
    /\ UNCHANGED jobVars

Signup(email, password, publishOk) == AuthCommit(SignupOutcome(email, password, publishOk))

Login(email, password) == AuthCommit(LoginOutcome(email, password))

Logout(token, decodes) == AuthCommit(LogoutOutcome(token, decodes))

RefreshAccessToken(token, expired) == AuthCommit(RefreshOutcome(token, expired))

VerifyEmail(token, expired, publishOk) ==
    AuthCommit(VerifyEmailOutcome(token, expired, publishOk))

ForgotPassword(email, publishOk) == AuthCommit(ForgotPasswordOutcome(email, publishOk))

ResetPassword(token, new_password, expired) ==
    AuthCommit(ResetPasswordOutcome(token, new_password, expired))

ResendVerification(email, publishOk) ==
    AuthCommit(ResendVerificationOutcome(email, publishOk))

\* An administrator switches an account off (User.is_active is written outside
\* these routes).
AccountDeactivated(email) ==
    /\ email \in DOMAIN accounts
    /\ accounts[email].is_active
    /\ accounts' = [accounts EXCEPT ![email].is_active = FALSE]
    /\ UNCHANGED <<blacklist, issued, minted>>
    /\ UNCHANGED jobVars

\* ------------------------------------------- signup and update_username
\* The two handlers step by step: every query and every commit is a step of
\* its own, and the rows are told apart by their id, so that the table can
\* hold whatever the handlers write.

Usernames == {"n1", "n2"}

\* A request in flight: what it asks for, the row of the caller (update_username,
\* 0 for signup) and the step it stands before.
Writer(kind, user, email, username, pc, code) ==
    [kind |-> kind, user |-> user, email |-> email, username |-> username,
     pc |-> pc, code |-> code]

\* A request w moves to step pc.
WriterMoves(w, pc) == writers' = [writers EXCEPT ![w].pc = pc]

\* A request w ends with a status code.
WriterEnds(w, code) == writers' = [writers EXCEPT ![w].pc = "done", ![w].code = code]

\* db.query(User).filter(User.email == email).first()
EmailTaken(email) == \E u \in DOMAIN users : users[u].email = email

\* db.query(User).filter(User.username == username).first()
UsernameTaken(username) == \E u \in DOMAIN users : users[u].username = username

\* POST /auth/signup arrives.
SignupBegin(email, username) ==
    /\ Len(writers) < MaxWriters
    /\ writers' = Append(writers, Writer("signup", 0, email, username, "check_email", 0))
    /\ UNCHANGED users

\* existing_email = ...; if existing_email: raise 400
SignupCheckEmail(w) ==
    /\ writers[w].kind = "signup" /\ writers[w].pc = "check_email"
    /\ IF EmailTaken(writers[w].email)
       THEN WriterEnds(w, 400)
       ELSE WriterMoves(w, "check_username")
    /\ UNCHANGED users

\* existing_username = ...; if existing_username: raise 400
SignupCheckUsername(w) ==
    /\ writers[w].kind = "signup" /\ writers[w].pc = "check_username"
    /\ IF UsernameTaken(writers[w].username)
       THEN WriterEnds(w, 400)
       ELSE WriterMoves(w, "write")
    /\ UNCHANGED users

\* db.add(new_user); db.commit(); return new_user
SignupWrite(w) ==
    /\ writers[w].kind = "signup" /\ writers[w].pc = "write"
    /\ users' = Append(users, [email |-> writers[w].email, username |-> writers[w].username])
    /\ WriterEnds(w, 201)

\* PUT /settings/username arrives from the owner of row u; the comparison with
\* the current username is made on the row the dependency loaded.
UpdateUsernameBegin(u, username) ==
    /\ Len(writers) < MaxWriters
    /\ u \in DOMAIN users
    /\ writers' = Append(writers,
          IF username = users[u].username
          THEN Writer("update_username", u, users[u].email, username, "done", 400)
          ELSE Writer("update_username", u, users[u].email, username, "check_username", 0))
    /\ UNCHANGED users

\* existing_user = ...; if existing_user: raise 400
UpdateUsernameCheck(w) ==
    /\ writers[w].kind = "update_username" /\ writers[w].pc = "check_username"
    /\ IF UsernameTaken(writers[w].username)
       THEN WriterEnds(w, 400)
       ELSE WriterMoves(w, "write")
    /\ UNCHANGED users

\* current_user.username = new_username; db.commit()
UpdateUsernameWrite(w) ==
    /\ writers[w].kind = "update_username" /\ writers[w].pc = "write"
    /\ users' = [users EXCEPT ![writers[w].user].username = writers[w].username]
    /\ WriterEnds(w, 200)

\* What the two handlers leave alone.
WriterFrame ==
    /\ UNCHANGED <<jobs, files, sent, handler, nextId, last, renames, pool>>
    /\ UNCHANGED <<authVars, deletes, summary>>

\* ------------------------------------------------------------ specifications
\* The rows of several jobs multiply, so each specification leaves one
\* independent column at its initial value: Spec leaves project_name (no
\* rename), SpecAccess leaves progress (no progress report). MaxJobs caps the
\* uploads that pass validation; a rejected upload is always possible.

\* upload_audio rejects a file before it reads the caller's identity or calls
\* send_task, so one caller stands for all of them in a rejected upload.
AnyCaller(cred, hdr, sendOk) == cred = None /\ hdr = None /\ sendOk
Next ==
    \/ \E cred \in Credentials, hdr \in GuestHeaders, fn \in Filenames,
          size \in FileSizes, sendOk \in BOOLEAN :
            /\ ValidFile(fn, size) => nextId <= MaxJobs
            /\ ~ValidFile(fn, size) => AnyCaller(cred, hdr, sendOk)
            /\ UploadAudio(cred, hdr, fn, size, sendOk)
    \/ \E j \in JobIds, trackOk \in BOOLEAN : UploadTrack(j, trackOk)
    \/ \E j \in JobIds : ReportStarted(j)
    \/ \E j \in JobIds, p \in ProgressValues : ReportProgress(j, p)
    \/ \E j \in JobIds, st \in TerminalStatuses : ReportTerminal(j, st)
    \/ \E j \in JobIds : StorageLoss(OutputPath(j))
    \/ \E j \in JobIds, cred \in Credentials, hdr \in GuestHeaders :
            GetJobStatus(j, cred, hdr)
    \/ \E j \in JobIds, cred \in Credentials, hdr \in GuestHeaders, trackOk \in BOOLEAN :
            DownloadProcessedAudio(j, cred, hdr, trackOk)
    \/ \E j \in JobIds, cred \in Credentials, hdr \in GuestHeaders :
            DeleteProject(j, cred, hdr)
    \/ \E cred \in Credentials, hdr \in GuestHeaders, filter \in {None, "failed"} :
            ListProjects(cred, hdr, filter, 0, MaxJobs)

Spec == Init /\ [][Next]_vars

NextAccess ==
    \/ \E cred \in Credentials, hdr \in GuestHeaders, fn \in Filenames,
          size \in FileSizes, sendOk \in BOOLEAN :
            /\ ValidFile(fn, size) => nextId <= MaxJobs
            /\ ~ValidFile(fn, size) => AnyCaller(cred, hdr, sendOk)
            /\ UploadAudio(cred, hdr, fn, size, sendOk)
    \/ \E j \in JobIds, trackOk \in BOOLEAN : UploadTrack(j, trackOk)
    \/ \E j \in JobIds : ReportStarted(j)
    \/ \E j \in JobIds, st \in TerminalStatuses : ReportTerminal(j, st)
    \/ \E j \in JobIds : StorageLoss(OutputPath(j))
    \/ \E j \in JobIds, cred \in Credentials, hdr \in GuestHeaders :
            GetJobStatus(j, cred, hdr)
    \/ \E j \in JobIds, cred \in Credentials, hdr \in GuestHeaders, trackOk \in BOOLEAN :
            DownloadProcessedAudio(j, cred, hdr, trackOk)
    \/ \E j \in JobIds, cred \in Credentials, hdr \in GuestHeaders, name \in ProjectNames :
            RenameProject(j, cred, hdr, name)
    \/ \E j \in JobIds, cred \in Credentials, hdr \in GuestHeaders :
            DeleteProject(j, cred, hdr)
    \/ \E cred \in Credentials, hdr \in GuestHeaders, filter \in {None, "failed"} :
            ListProjects(cred, hdr, filter, 0, MaxJobs)

SpecAccess == Init /\ [][NextAccess]_vars

\* Rename requests that overlap: each is a check and a commit, in any order
\* with the others and with the accepted uploads and the deletes of the store.
NextRename ==
    \/ \E cred \in Credentials, hdr \in GuestHeaders, fn \in Filenames,
          size \in FileSizes, sendOk \in BOOLEAN :
            /\ ValidFile(fn, size) /\ nextId <= MaxJobs
            /\ UploadAudio(cred, hdr, fn, size, sendOk)
    \/ \E j \in JobIds, trackOk \in BOOLEAN : UploadTrack(j, trackOk)
    \/ \E j \in JobIds, cred \in Credentials, hdr \in GuestHeaders, name \in ProjectNames :
            RenameBegin(j, cred, hdr, name)
    \/ \E r \in renames : RenameCommit(r)
    \/ \E j \in JobIds, cred \in Credentials, hdr \in GuestHeaders :
            DeleteProject(j, cred, hdr)

SpecRename == Init /\ [][NextRename]_vars

\* The store as list_projects pages through it: accepted uploads of up to
\* MaxListed jobs, pending or failed as their handlers leave them, deletes,
\* and the list requests.
NextList ==
    \/ \E cred \in Credentials, hdr \in GuestHeaders, fn \in Filenames,
          size \in FileSizes, sendOk \in BOOLEAN :
            /\ ValidFile(fn, size) /\ nextId <= MaxListed
            /\ UploadAudio(cred, hdr, fn, size, sendOk)
    \/ \E j \in ListedIds, trackOk \in BOOLEAN : UploadTrack(j, trackOk)
    \/ \E j \in ListedIds, cred \in Credentials, hdr \in GuestHeaders :
            DeleteProject(j, cred, hdr)
    \/ \E cred \in Credentials, hdr \in GuestHeaders, filter \in {None, "failed"},
          skip \in Skips :
            ListProjects(cred, hdr, filter, skip, 1)

SpecList == Init /\ [][NextList]_vars

\* The worker pool and the broker change on their own; the health operations
\* are called at any time with any timeout.
NextHealth ==
    \/ \E w \in WorkerNames, r \in WorkerReplies : WorkerStarts(w, r)
    \/ \E w \in WorkerNames, r \in WorkerReplies : WorkerChanges(w, r)
    \/ \E w \in WorkerNames : WorkerStops(w)
    \/ BrokerSwitches
    \/ \E t \in Timeouts : CheckWorkersAvailableSync(t)
    \/ \E q \in QueueNames, t \in Timeouts : CheckQueueAvailableSync(q, t)
    \/ \E q \in QueueNames, t \in Timeouts : GetQueueLengthSync(q, t)
    \/ \E t \in Timeouts : GetWorkerHealthSummary(t)
    \/ \E t \in Timeouts : GetWorkerHealthSummarySync(t)
    \/ HealthCheck

SpecHealth == Init /\ [][NextHealth]_vars

\* The authentication routes on their own.
NextAuth ==
    \/ \E email \in Emails, publishOk \in BOOLEAN : Signup(email, "p1", publishOk)
    \/ \E email \in Emails, password \in Passwords : Login(email, password)
    \/ \E token \in PresentedTokens, decodes \in BOOLEAN : Logout(token, decodes)
    \/ \E token \in PresentedTokens, expired \in BOOLEAN : RefreshAccessToken(token, expired)
    \/ \E token \in TokenSerials, expired, publishOk \in BOOLEAN :
           VerifyEmail(token, expired, publishOk)
    \/ \E email \in Emails, publishOk \in BOOLEAN : ForgotPassword(email, publishOk)
    \/ \E token \in TokenSerials, expired \in BOOLEAN : ResetPassword(token, "p2", expired)
    \/ \E email \in Emails, publishOk \in BOOLEAN : ResendVerification(email, publishOk)
    \/ \E email \in Emails : AccountDeactivated(email)

SpecAuth == Init /\ [][NextAuth]_vars

\* delete_project requests running side by side.
NextDelete ==
    \/ \E cred \in Credentials, hdr \in GuestHeaders, fn \in Filenames, size \in FileSizes :
            /\ ValidFile(fn, size) /\ nextId <= MaxJobs
            /\ UploadAudio(cred, hdr, fn, size, TRUE)
    \/ \E j \in JobIds, st \in TerminalStatuses : ReportTerminal(j, st)
    \/ \E j \in JobIds, cred \in Credentials, hdr \in GuestHeaders : DeleteLookup(j, cred, hdr)
    \/ \E d \in DOMAIN deletes : DeleteExistsCheck(d)
    \/ \E d \in DOMAIN deletes : DeleteRemove(d)
    \/ \E d \in DOMAIN deletes : DeleteCommit(d)

SpecDelete == Init /\ [][NextDelete]_vars

\* signup and update_username requests running side by side.
NextRegister ==
    \/ \E email \in Emails, username \in Usernames :
            SignupBegin(email, username) /\ WriterFrame
    \/ \E w \in DOMAIN writers : SignupCheckEmail(w) /\ WriterFrame
    \/ \E w \in DOMAIN writers : SignupCheckUsername(w) /\ WriterFrame
    \/ \E w \in DOMAIN writers : SignupWrite(w) /\ WriterFrame
    \/ \E u \in DOMAIN users, username \in Usernames :
            UpdateUsernameBegin(u, username) /\ WriterFrame
    \/ \E w \in DOMAIN writers : UpdateUsernameCheck(w) /\ WriterFrame
    \/ \E w \in DOMAIN writers : UpdateUsernameWrite(w) /\ WriterFrame

SpecRegister == Init /\ [][NextRegister]_vars

\* One health summary at a time while the worker pool changes; the workers
\* hold no task.
NextSummary ==
    \/ \E w \in WorkerNames, r \in WorkerReplies :
            /\ r.scheduled = << >> /\ r.reserved = << >>
            /\ WorkerStarts(w, r)
    \/ \E w \in WorkerNames, r \in WorkerReplies :
            /\ r.scheduled = << >> /\ r.reserved = << >>
            /\ WorkerChanges(w, r)
    \/ \E w \in WorkerNames : WorkerStops(w)
    \/ BrokerSwitches
    \/ SummaryProbeWorkers /\ SummaryFrame
    \/ SummaryProbeAudio /\ SummaryFrame
    \/ SummaryProbeMaintenance /\ SummaryFrame
    \/ SummaryReturn /\ SummaryFrame

SpecSummary == Init /\ [][NextSummary]_vars


\* ------------------------------------------------------------------- claims
\* The caller's resolved identity: the authenticated user id for a credentialed
\* caller, otherwise the X-Guest-ID value, otherwise nobody.
ResolvedIdentity(cred, hdr) ==
    IF cred /= None THEN <<"user", cred>>
    ELSE IF hdr /= None THEN <<"guest", hdr>>
    ELSE <<"nobody", None>>

\* The owner a job row records: whichever arm of the union is populated.
JobOwner(job) ==
    IF job.user_id /= None THEN <<"user", job.user_id>>
    ELSE IF job.guest_id /= None THEN <<"guest", job.guest_id>>
    ELSE <<"nobody", None>>

\* The caller resolves to an identity, and it is the job's owner.
IsOwner(job, cred, hdr) ==
    /\ ResolvedIdentity(cred, hdr)[1] /= "nobody"
    /\ ResolvedIdentity(cred, hdr) = JobOwner(job)

\* C1: every job record created by upload has exactly one of user_id and
\* guest_id set, never both and never neither, whatever credential and
\* X-Guest-ID header the caller sent.
C1_ExactlyOneOwner ==
    \A j \in DOMAIN jobs :
        (jobs[j].user_id /= None) /= (jobs[j].guest_id /= None)

\* C2: when the task submission of an upload fails, the job is failed with a
\* non-empty error_message at the moment the upload returns, and no returned
\* upload leaves a job pending with no dispatch handle and no error_message.
C2_DispatchFailureIsTerminal ==
    /\ \A cred \in Credentials, hdr \in GuestHeaders, fn \in Filenames, size \in FileSizes :
          LET o == UploadOutcome(cred, hdr, fn, size, FALSE)
          IN  ValidFile(fn, size) =>
                /\ o.response = Response("upload", 201, "failed")
                /\ o.jobs[nextId].status = "failed"
                /\ o.jobs[nextId].error_message \notin {None, ""}
                /\ nextId \notin o.sent
    /\ \A j \in DOMAIN jobs \ handler :
          /\ j \notin sent =>
                /\ jobs[j].status = "failed"
                /\ jobs[j].error_message \notin {None, ""}
          /\ ~ /\ jobs[j].status = "pending"
               /\ jobs[j].celery_task_id = None
               /\ jobs[j].error_message = None

\* C2 witness: an upload whose send_task raised has returned, its job failed.
C2_Witness ==
    \E j \in DOMAIN jobs :
        /\ j \notin sent
        /\ jobs[j].status = "failed"
        /\ jobs[j].error_message = QueueErrorMessage
        /\ last = Response("upload", 201, "failed")

\* The moves of status the lifecycle allows.
StatusMoves ==
    { <<"pending", "processing">>, <<"pending", "completed">>, <<"pending", "failed">>,
      <<"processing", "completed">>, <<"processing", "failed">> }

\* C3: status only moves pending -> processing -> {completed, failed} or
\* pending -> {completed, failed}, and once a job is completed or failed every
\* later progress or terminal report leaves its status, progress, output_path
\* and error_message unchanged.
C3_StatusForwardOnly ==
    [][\A j \in DOMAIN jobs \cap DOMAIN jobs' :
          /\ jobs'[j].status /= jobs[j].status =>
                <<jobs[j].status, jobs'[j].status>> \in StatusMoves
          /\ jobs[j].status \in TerminalStatuses =>
                /\ \A p \in ProgressValues : ProgressApplied(jobs[j], p) = jobs[j]
                /\ \A st \in TerminalStatuses : TerminalApplied(jobs[j], j, st) = jobs[j]
      ]_vars

\* C4: in every reachable state a job's output_path is set if and only if its
\* status is completed.
C4_OutputIffCompleted ==
    \A j \in DOMAIN jobs :
        (jobs[j].output_file_path /= NoPath) <=> (jobs[j].status = "completed")

\* C5: get_status, download, rename and delete succeed on a job only for the
\* caller whose resolved identity is the job's owner; for every other caller
\* they fail Forbidden and leave the job record and its files unchanged.
C5_OwnerOnlyAccess ==
    \A j \in JobIds, cred \in Credentials, hdr \in GuestHeaders :
        LET owns == j \in DOMAIN jobs /\ IsOwner(jobs[j], cred, hdr)
            del == DeleteOutcome(j, cred, hdr)
        IN  /\ StatusResponse(j, cred, hdr).code = 200 => owns
            /\ RenameResponse(j, cred, hdr).code = 200 => owns
            /\ DeleteResponse(j, cred, hdr).code = 200 => owns
            /\ \A t \in BOOLEAN : DownloadResponse(j, cred, hdr, t).code = 200 => owns
            /\ \A n \in ProjectNames : RenameOutcome(j, cred, hdr, n) /= jobs => owns
            /\ (del.jobs /= jobs \/ del.files /= files) => owns
            /\ (j \in DOMAIN jobs /\ ~owns) =>
                  /\ StatusResponse(j, cred, hdr).code = 403
                  /\ RenameResponse(j, cred, hdr).code = 403
                  /\ DeleteResponse(j, cred, hdr).code = 403
                  /\ \A t \in BOOLEAN : DownloadResponse(j, cred, hdr, t).code = 403
                  /\ \A n \in ProjectNames : RenameOutcome(j, cred, hdr, n) = jobs
                  /\ del.jobs = jobs
                  /\ del.files = files

\* C5 witness: a job its owner has renamed, which another caller of the same
\* kind is refused.
C5_Witness ==
    \E j \in DOMAIN jobs, cred \in Credentials, hdr \in GuestHeaders :
        /\ jobs[j].project_name \in ProjectNames
        /\ JobOwner(jobs[j])[1] = ResolvedIdentity(cred, hdr)[1]
        /\ ~IsOwner(jobs[j], cred, hdr)
        /\ RenameResponse(j, cred, hdr).code = 403

\* C6: download of a missing job id fails NotFound, of an existing job by a
\* caller who is not its owner fails Forbidden whatever the job's status, and by
\* the owner while the job is pending, processing or failed fails NotReady,
\* which is neither of the other two.
C6_DownloadErrorOrder ==
    \A j \in JobIds, cred \in Credentials, hdr \in GuestHeaders, t \in BOOLEAN :
        LET r == DownloadResponse(j, cred, hdr, t)
        IN  /\ j \notin DOMAIN jobs => r.code = 404
            /\ (j \in DOMAIN jobs /\ ~IsOwner(jobs[j], cred, hdr)) =>
                  r = Response("download", 403, "not authorized")
            /\ ( /\ j \in DOMAIN jobs
                 /\ IsOwner(jobs[j], cred, hdr)
                 /\ jobs[j].status \in {"pending", "processing", "failed"} ) =>
                  (r.code = 400 /\ r.code \notin {403, 404})

\* C6 witness: a job in processing whose owner is told NotReady while another
\* caller is told Forbidden.
C6_Witness ==
    \E j \in DOMAIN jobs, cred \in Credentials, hdr \in GuestHeaders :
        /\ jobs[j].status = "processing"
        /\ IsOwner(jobs[j], cred, hdr)
        /\ DownloadResponse(j, cred, hdr, TRUE).code = 400
        /\ \E c2 \in Credentials, h2 \in GuestHeaders :
              DownloadResponse(j, c2, h2, TRUE).code = 403

\* C7: every job operation that requires an owner, called with neither a
\* credential nor an X-Guest-ID header, fails Unauthenticated and creates or
\* changes no job record.
C7_AnonymousUnauthenticated ==
    [][ /\ ListCode(None, None) = 401
        /\ \A j \in DOMAIN jobs :
              /\ StatusResponse(j, None, None).code = 401
              /\ DownloadResponse(j, None, None, TRUE).code = 401
              /\ RenameResponse(j, None, None).code = 401
              /\ DeleteResponse(j, None, None).code = 401
        /\ \A fn \in Filenames, size \in FileSizes, sendOk \in BOOLEAN :
              (ValidFile(fn, size) /\ UploadAudio(None, None, fn, size, sendOk)) =>
                  (jobs' = jobs /\ last'.op = "upload" /\ last'.code = 401)
      ]_vars

\* C8: when recording the upload usage event fails after the task was
\* dispatched, the upload returns what it returns when the recording succeeds
\* and the job keeps the status, error_message and dispatch handle it had.
C8_TrackFailureSwallowed ==
    [][\A j \in DOMAIN jobs :
          UploadTrack(j, FALSE) =>
              (jobs'[j] = jobs[j] /\ last' = TrackOutcome(j, TRUE).last)
      ]_vars

\* C9: when recording the download usage event fails, the download by the
\* owner of a completed job whose output file exists still returns the file.
C9_DownloadTrackFailureSwallowed ==
    \A j \in DOMAIN jobs, cred \in Credentials, hdr \in GuestHeaders :
        ( /\ IsOwner(jobs[j], cred, hdr)
          /\ jobs[j].status = "completed"
          /\ jobs[j].output_file_path \in files ) =>
            DownloadResponse(j, cred, hdr, FALSE).code = 200

\* C10: an upload is rejected UnsupportedFormat exactly when its extension is
\* not in the allow-list and TooLarge exactly when its size is strictly above
\* the ceiling, and a rejected upload leaves the job store, the file storage
\* and the task queue as they were.
C10_RejectedUploadLeavesNothing ==
    \A cred \in Credentials, hdr \in GuestHeaders, fn \in Filenames,
       size \in FileSizes, sendOk \in BOOLEAN :
        LET o == UploadOutcome(cred, hdr, fn, size, sendOk)
        IN  /\ o.response.code = 400 <=> FileExtension(fn) \notin AllowedAudioFormats
            /\ o.response.code = 413 <=>
                  (FileExtension(fn) \in AllowedAudioFormats /\ size > MaxSizeBytes)
            /\ o.response.code \in {400, 413} =>
                  /\ o.jobs = jobs
                  /\ o.files = files
                  /\ o.sent = sent
                  /\ o.handler = handler

\* C10 witness: an oversized upload was refused while the store held a job,
\* and the storage holds no file but that job's.
C10_Witness ==
    /\ last = Response("upload", 413, "File too large")
    /\ DOMAIN jobs /= {}
    /\ handler = {}
    /\ \A j \in DOMAIN jobs : j \notin sent
    /\ files = {jobs[j].input_file_path : j \in DOMAIN jobs}

\* C11: when send_task fails during an upload, the upload returns no error but
\* the creation response carrying status failed, and the job record stays in
\* the store, where its owner reads it with get_status as failed.
C11_DispatchFailureReported ==
    /\ \A cred \in Credentials, hdr \in GuestHeaders, fn \in Filenames, size \in FileSizes :
          LET o == UploadOutcome(cred, hdr, fn, size, FALSE)
          IN  ValidFile(fn, size) =>
                /\ o.response.code = 201
                /\ o.response.detail = "failed"
                /\ nextId \in DOMAIN o.jobs
                /\ DOMAIN jobs \subseteq DOMAIN o.jobs
    /\ \A j \in DOMAIN jobs \ sent :
          \A cred \in Credentials, hdr \in GuestHeaders :
              IsOwner(jobs[j], cred, hdr) =>
                  /\ StatusResponse(j, cred, hdr).code = 200
                  /\ StatusResponse(j, cred, hdr).detail.status = "failed"
                  /\ StatusResponse(j, cred, hdr).detail.error_message = QueueErrorMessage

\* C11 witness: the upload of a guest returned the creation response with
\* status failed after send_task raised, and the guest reads the job as failed.
C11_Witness ==
    \E j \in DOMAIN jobs \ sent, hdr \in GuestIds :
        /\ last = Response("upload", 201, "failed")
        /\ IsOwner(jobs[j], None, hdr)
        /\ StatusResponse(j, None, hdr).code = 200
        /\ StatusResponse(j, None, hdr).detail.status = "failed"

\* C12: after upload returns, a job has a stored dispatch handle if and only
\* if its task was submitted to the queue, and a job that upload marked failed
\* has no handle and no task enqueued for it.
C12_HandleIffEnqueued ==
    \A j \in DOMAIN jobs \ handler :
        /\ (jobs[j].celery_task_id /= None) <=> (j \in sent)
        /\ (jobs[j].status = "failed" /\ jobs[j].error_message = QueueErrorMessage) =>
              (jobs[j].celery_task_id = None /\ j \notin sent)

\* C13: no client request changes a job's status: get_status, list and
\* download change no field of any job, and a rename by the owner changes only
\* project_name of the targeted job, leaving every other column of it and every
\* other job as they were, whatever the job's current status.
C13_ClientRequestsKeepStatus ==
    [][ jobs' /= jobs =>
          \A j \in JobIds, cred \in Credentials, hdr \in GuestHeaders :
              /\ ~GetJobStatus(j, cred, hdr)
              /\ \A t \in BOOLEAN : ~DownloadProcessedAudio(j, cred, hdr, t)
              /\ \A filter \in StatusFilters, skip \in Skips, limit \in Limits :
                    ~ListProjects(cred, hdr, filter, skip, limit)
              /\ \A name \in ProjectNames :
                    RenameProject(j, cred, hdr, name) =>
                        /\ DOMAIN jobs' = DOMAIN jobs
                        /\ \A k \in DOMAIN jobs \ {j} : jobs'[k] = jobs[k]
                        /\ [jobs'[j] EXCEPT !.project_name = jobs[j].project_name]
                              = jobs[j]
                        /\ IsOwner(jobs[j], cred, hdr)
                        /\ jobs'[j].project_name = name
      ]_vars

\* C13 witness: a job that is completed or failed carries a name given by a
\* rename, with its status, paths and error message in place.
C13_Witness ==
    \E j \in DOMAIN jobs :
        /\ jobs[j].project_name \in ProjectNames
        /\ jobs[j].status \in TerminalStatuses
        /\ j \notin handler
        /\ (jobs[j].status = "completed") => jobs[j].output_file_path = OutputPath(j)

\* C14: after a delete by the owner returns successfully the job record is
\* gone, so that get_status, download, rename and delete of that job_id fail
\* NotFound, and neither its input file nor its output file is in storage; a
\* referenced file that is already missing does not make the delete fail.
C14_DeleteRemovesRecordAndFiles ==
    /\ \A j \in DOMAIN jobs, cred \in Credentials, hdr \in GuestHeaders :
          IsOwner(jobs[j], cred, hdr) =>
              LET d == DeleteOutcome(j, cred, hdr)
              IN  /\ DeleteResponse(j, cred, hdr).code = 200
                  /\ j \notin DOMAIN d.jobs
                  /\ \A k \in DOMAIN jobs \ {j} : k \in DOMAIN d.jobs /\ d.jobs[k] = jobs[k]
                  /\ jobs[j].input_file_path \notin d.files
                  /\ jobs[j].output_file_path \notin d.files
                  /\ d.files \subseteq files
    /\ \A j \in JobIds \ DOMAIN jobs :
          /\ j < nextId => (InputPath(j) \notin files /\ OutputPath(j) \notin files)
          /\ \A cred \in Credentials, hdr \in GuestHeaders :
                /\ StatusResponse(j, cred, hdr).code = 404
                /\ RenameResponse(j, cred, hdr).code = 404
                /\ DeleteResponse(j, cred, hdr).code = 404
                /\ \A t \in BOOLEAN : DownloadResponse(j, cred, hdr, t).code = 404
                /\ DeleteOutcome(j, cred, hdr) = [jobs |-> jobs, files |-> files]

\* C14 witness: a job whose task had been sent was deleted, and nothing of it
\* is left in the store or in storage.
C14_Witness ==
    \E j \in sent :
        /\ j \notin DOMAIN jobs
        /\ j \notin handler
        /\ InputPath(j) \notin files
        /\ OutputPath(j) \notin files
        /\ \E u \in Users : DeleteResponse(j, u, None).code = 404

\* C15: when two renames of the same job by its owner with different names
\* overlap, both complete, the stored project_name afterwards is exactly one of
\* the two requested names, and no other column of the record differs from its
\* value before the two calls.
C15_ConcurrentRenameOneNameWins ==
    [][ /\ \A j \in DOMAIN jobs : jobs[j].project_name \in ProjectNames \cup {None}
        /\ \A r \in renames : r.name \in ProjectNames
        /\ \A r \in renames :
              RenameCommit(r) =>
                  /\ r \notin renames'
                  /\ DOMAIN jobs' = DOMAIN jobs
                  /\ \A k \in DOMAIN jobs \ {r.job} : jobs'[k] = jobs[k]
                  /\ r.job \in DOMAIN jobs =>
                        /\ jobs'[r.job].project_name = r.name
                        /\ [jobs'[r.job] EXCEPT !.project_name = jobs[r.job].project_name]
                              = jobs[r.job]
        /\ \A j \in DOMAIN jobs \cap DOMAIN jobs' :
              jobs'[j].project_name /= jobs[j].project_name =>
                  \E r \in renames : r.job = j /\ r.name = jobs'[j].project_name
      ]_vars

\* C15 witness: a rename that loaded the job before it had a name is still to
\* commit, and a rename with another name has committed in the meantime.
C15_Witness ==
    \E j \in DOMAIN jobs, r \in renames :
        /\ r.job = j
        /\ r.seen = None
        /\ jobs[j].project_name \in ProjectNames \ {r.name}

\* C16: list returns exactly the jobs whose owner is the caller's resolved
\* identity (and whose status is the filter when one is given), ordered by
\* created_at descending, restricted to positions skip .. skip+limit-1 of that
\* ordering; it never returns a job of another user or guest.
C16_ListScopedOrderedPaged ==
    \A cred \in Credentials, hdr \in GuestHeaders, filter \in StatusFilters,
       skip \in Skips, limit \in Limits :
        LET r == ListResponse(cred, hdr, filter, skip, limit)
            mine == {j \in DOMAIN jobs :
                        /\ JobOwner(jobs[j]) = ResolvedIdentity(cred, hdr)
                        /\ filter \notin {None, ""} => jobs[j].status = filter}
            rest == Cardinality(mine) - skip
        IN  IF ResolvedIdentity(cred, hdr)[1] = "nobody"
            THEN r.code = 401
            ELSE /\ r.code = 200
                 /\ Len(r.detail) = (IF rest < 0 THEN 0 ELSE IF limit < rest THEN limit ELSE rest)
                 /\ \A i \in 1..Len(r.detail) :
                       /\ r.detail[i] \in mine
                       /\ Cardinality({k \in mine :
                              jobs[k].created_at > jobs[r.detail[i]].created_at})
                            = skip + i - 1

\* C16 witness: an owner of two jobs is listed the newer one first, gets the
\* older one alone at skip 1 and only the failed one under the filter, and
\* another caller is listed none of them.
C16_Witness ==
    \E cred \in Credentials, hdr \in GuestHeaders, a \in DOMAIN jobs, b \in DOMAIN jobs :
        /\ a < b
        /\ ListCode(cred, hdr) = 200
        /\ jobs[a].status = "failed"
        /\ jobs[b].status /= "failed"
        /\ ListResponse(cred, hdr, None, 0, 2).detail = <<b, a>>
        /\ ListResponse(cred, hdr, None, 1, 1).detail = <<a>>
        /\ ListResponse(cred, hdr, "failed", 0, 2).detail = <<a>>
        /\ \E c2 \in Users : ListResponse(c2, None, None, 0, 2).detail = << >>

\* The pool gives no answer: no worker replies, or the broker is unreachable.
PoolUnresponsive(p) == p.broker = "down" \/ DOMAIN p.workers = {}

\* C17: a worker health check called with timeout T against a pool that never
\* replies or a broker that cannot be reached returns available = false with
\* worker_count = 0 within T of being called, counting every probe it makes
\* one after the other.
C17_HealthCheckWithinTimeout ==
    PoolUnresponsive(pool) =>
        \A t \in Timeouts :
            /\ CheckWorkersAvailable(pool).available = FALSE
            /\ CheckWorkersAvailable(pool).worker_count = 0
            /\ CheckWorkersElapsed(pool, t) <= t
            /\ WorkerHealthSummary(pool).available = FALSE
            /\ WorkerHealthSummary(pool).worker_count = 0
            /\ SummaryElapsed(pool, t) <= t

\* Some worker is available and some worker listens on audio_processing.
AudioProcessingServed(p) ==
    /\ p.broker = "up"
    /\ DOMAIN p.workers /= {}
    /\ \E w \in DOMAIN p.workers : "audio_processing" \in p.workers[w].queues

\* C18: every aggregate health verdict (the async and the sync summary, and
\* the overall status of /health) is healthy if and only if at least one worker
\* is available and some worker listens on audio_processing, else unhealthy.
C18_VerdictIffWorkersAndQueue ==
    LET served == AudioProcessingServed(pool)
        verdict(st) == IF served THEN st = "healthy" ELSE st = "unhealthy"
    IN  /\ verdict(WorkerHealthSummary(pool).status)
        /\ verdict(WorkerHealthSummarySync(pool).status)
        /\ verdict(HealthCheckResponse(pool).status)

\* C19: a health summary whose status is unhealthy has a message that
\* describes the error: it is not empty and not "Workers are operational",
\* also when workers are available and none listens on audio_processing.
C19_UnhealthyMessageIsError ==
    /\ WorkerHealthSummary(pool).status = "unhealthy" =>
          WorkerHealthSummary(pool).message \notin {"Workers are operational", "", None}
    /\ WorkerHealthSummarySync(pool).status = "unhealthy" =>
          WorkerHealthSummarySync(pool).message \notin {"Workers are operational", "", None}

\* The entries of all workers' scheduled and reserved lists routed to name.
RoutedTo(p, name) ==
    {<<w, f, i>> \in (DOMAIN p.workers) \X {"scheduled", "reserved"} \X (1..2) :
        i <= Len(p.workers[w][f]) /\ p.workers[w][f][i] = name}

\* C20: queue_depth(name) returns -1 exactly when the probe fails, a pool that
\* gives no reply included, and otherwise the number of entries of all
\* workers' scheduled and reserved lists whose routing key is name.
C20_QueueDepthSentinel ==
    \A q \in QueueNames :
        IF PoolUnresponsive(pool)
        THEN GetQueueLength(pool, q) = -1
        ELSE /\ GetQueueLength(pool, q) = Cardinality(RoutedTo(pool, q))
             /\ GetQueueLength(pool, q) >= 0

\* C21: a download by the owner of a completed job whose output file is
\* missing from storage, or whose output path is unset, fails with a
\* storage-inconsistency error, returns no file and records no download
\* usage event.
C21_MissingOutputIsStorageError ==
    \A j \in DOMAIN jobs, cred \in Credentials, hdr \in GuestHeaders :
        ( /\ IsOwner(jobs[j], cred, hdr)
          /\ jobs[j].status = "completed"
          /\ (jobs[j].output_file_path = NoPath \/ jobs[j].output_file_path \notin files) ) =>
            /\ \A t \in BOOLEAN :
                  /\ DownloadResponse(j, cred, hdr, t).code = 500
                  /\ DownloadResponse(j, cred, hdr, t).detail
                        \in {"output path not set", "file not found"}
            /\ ~DownloadTracked(j, cred, hdr)

\* C21 witness: the output file of a completed job is gone from storage and
\* its owner's download is answered with the storage error.
C21_Witness ==
    \E j \in DOMAIN jobs, cred \in Credentials, hdr \in GuestHeaders :
        /\ IsOwner(jobs[j], cred, hdr)
        /\ jobs[j].status = "completed"
        /\ jobs[j].output_file_path = OutputPath(j)
        /\ OutputPath(j) \notin files
        /\ DownloadResponse(j, cred, hdr, TRUE) = Response("download", 500, "file not found")

\* C22: for every job expires_at is strictly later than created_at, for every
\* configured TTL and whatever the delay between the handler computing
\* expires_at and the store assigning created_at at the insert (the handler
\* of job j reads the clock at tick j).
C22_ExpiresAfterCreated ==
    \A j \in DOMAIN jobs, hours \in FileExpiryHours, delay \in InsertDelays :
        ExpiresAt(j, hours) > CreatedAt(j, delay)

\* C23: for every job progress stays within [0.0, 1.0] (0 .. 100 percent) and
\* never decreases while status is processing: a progress report with a value
\* lower than the stored one, or arriving while status is not processing,
\* leaves the stored progress unchanged.
C23_ProgressMonotone ==
    [][ /\ \A j \in DOMAIN jobs :
              /\ jobs[j].progress \in 0..100
              /\ \A p \in ProgressValues :
                    (p < jobs[j].progress \/ jobs[j].status /= "processing") =>
                        ProgressApplied(jobs[j], p).progress = jobs[j].progress
        /\ jobs' /= jobs =>
              \A j \in DOMAIN jobs \cap DOMAIN jobs' :
                  /\ jobs'[j].progress \in 0..100
                  /\ jobs[j].status = "processing" => jobs'[j].progress >= jobs[j].progress
                  /\ jobs[j].status /= "processing" => jobs'[j].progress = jobs[j].progress
      ]_vars

\* C23 witness: a job in processing has stored a progress report above zero,
\* and a report of a lower value would leave it as it is.
C23_Witness ==
    \E j \in DOMAIN jobs :
        /\ jobs[j].status = "processing"
        /\ jobs[j].progress = 50
        /\ ProgressApplied(jobs[j], 0) = jobs[j]
        /\ ProgressApplied(jobs[j], 100).progress = 100

\* C24: get_status by the owner reports output_available = true exactly when
\* the job's status is completed and its output path is set, and whenever it
\* reports false a download by the same caller in the same state returns no
\* file.
C24_OutputAvailableDerived ==
    \A j \in DOMAIN jobs, cred \in Credentials, hdr \in GuestHeaders :
        IsOwner(jobs[j], cred, hdr) =>
            LET r == StatusResponse(j, cred, hdr)
            IN  /\ r.code = 200
                /\ r.detail.output_available <=>
                      (jobs[j].status = "completed" /\ jobs[j].output_file_path /= NoPath)
                /\ ~r.detail.output_available =>
                      \A t \in BOOLEAN : DownloadResponse(j, cred, hdr, t).code /= 200

\* C24 witness: the owner of a job that is failed with an output path left in
\* its row is told output_available = false and is refused the download.
C24_Witness ==
    \E j \in DOMAIN jobs, cred \in Credentials, hdr \in GuestHeaders :
        /\ IsOwner(jobs[j], cred, hdr)
        /\ jobs[j].status = "failed"
        /\ jobs[j].output_file_path = OutputPath(j)
        /\ OutputPath(j) \in files
        /\ StatusResponse(j, cred, hdr).detail.output_available = FALSE
        /\ DownloadResponse(j, cred, hdr, TRUE).code = 400

\* C25: the failure path of the upload handler never overwrites a terminal
\* state the worker wrote: when the task is enqueued, the worker reports
\* completed or failed, and a later step of the same handler raises, the job's
\* status, output path and error_message stay those the worker reported.
C25_FailurePathKeepsWorkerState ==
    [][\A j \in handler \cap sent \cap DOMAIN jobs :
          ( /\ jobs[j].status \in TerminalStatuses
            /\ jobs[j].error_message /= QueueErrorMessage
            /\ UploadTrack(j, FALSE) ) =>
              /\ jobs'[j].status = jobs[j].status
              /\ jobs'[j].output_file_path = jobs[j].output_file_path
              /\ jobs'[j].error_message = jobs[j].error_message
      ]_vars

\* C29: every job an upload creates is accessible to the identity that created
\* it: a get_status, rename, download or delete made with the credential and
\* headers the upload was made with never fails with 403 Forbidden.
C29_CreatorIsNeverForbidden ==
    \A j \in DOMAIN jobs, cred \in Credentials, hdr \in GuestHeaders :
        ( /\ jobs[j].user_id = UploadUserId(cred)
          /\ jobs[j].guest_id = UploadGuestId(cred, hdr) ) =>
            /\ StatusResponse(j, cred, hdr).code /= 403
            /\ RenameResponse(j, cred, hdr).code /= 403
            /\ DeleteResponse(j, cred, hdr).code /= 403
            /\ \A t \in BOOLEAN : DownloadResponse(j, cred, hdr, t).code /= 403

\* A refresh call that failed: a 401 that signed no token.
RefreshFailed(token, expired) ==
    /\ RefreshOutcome(token, expired).response.code = 401
    /\ RefreshOutcome(token, expired).issued = issued
    /\ RefreshOutcome(token, expired).minted = minted

\* A second logout with a blacklisted token is refused and stores nothing.
SecondLogoutRefused ==
    \A token \in blacklist, decodes \in BOOLEAN :
        /\ LogoutOutcome(token, decodes).response =
               Response("logout", 400, "Token already invalidated")
        /\ LogoutOutcome(token, decodes).blacklist = blacklist

\* C26 as stated: once logout has succeeded for a token the token stays
\* blacklisted in every later state, a second logout with it fails with "Token
\* already invalidated" and adds no blacklist entry, and refresh called with a
\* blacklisted token always fails with "Token has been revoked" and issues no
\* new tokens.
C26_BlacklistedAlwaysRevoked ==
    /\ [][blacklist \subseteq blacklist']_vars
    /\ [](/\ SecondLogoutRefused
          /\ \A token \in blacklist, expired \in BOOLEAN :
                /\ RefreshFailed(token, expired)
                /\ RefreshOutcome(token, expired).response.detail =
                       "Token has been revoked")

\* C26 amended: once logout has succeeded for a token the token stays
\* blacklisted in every later state, a second logout with it fails with "Token
\* already invalidated" and adds no blacklist entry, and refresh called with a
\* blacklisted token always fails with 401 and issues no new tokens; the
\* detail is "Token has been revoked" exactly when the token is an unexpired
\* refresh token, "Invalid token type" for an unexpired access token and
\* "Invalid refresh token" for an expired one.
C26_BlacklistedStaysRefused ==
    /\ [][blacklist \subseteq blacklist']_vars
    /\ [](/\ SecondLogoutRefused
          /\ \A token \in blacklist, expired \in BOOLEAN :
                /\ RefreshFailed(token, expired)
                /\ RefreshOutcome(token, expired).response.detail =
                       IF expired THEN "Invalid refresh token"
                       ELSE IF token.type = "refresh" THEN "Token has been revoked"
                       ELSE "Invalid token type")

\* C26 witness: logout has stored the refresh token of an active account and
\* the access token of an active account; a refresh with the first is answered
\* "Token has been revoked", with the second "Invalid token type".
C26_Witness ==
    \E r, a \in blacklist :
        /\ r.type = "refresh" /\ a.type = "access"
        /\ accounts[r.sub].is_active /\ accounts[a.sub].is_active
        /\ minted < MaxTokens
        /\ RefreshOutcome(r, FALSE).response.detail = "Token has been revoked"
        /\ RefreshOutcome(a, FALSE).response.detail = "Invalid token type"

\* verify_email refuses the token as invalid and changes no user field.
VerifyRejects(token) ==
    \A expired, publishOk \in BOOLEAN :
        VerifyEmailOutcome(token, expired, publishOk) =
            AuthRefused(Response("verify_email", 400, "Invalid verification token"))

\* reset_password refuses the token as invalid and changes no user field.
ResetRejects(token) ==
    \A expired \in BOOLEAN, new_password \in Passwords :
        ResetPasswordOutcome(token, new_password, expired) =
            AuthRefused(Response("reset_password", 400, "Invalid reset token"))

\* C27: email-verification and password-reset tokens are single-use and
\* superseded by reissue: once verify_email or reset_password has succeeded
\* with a token, the next call and every later call with it fails with the
\* invalid-token error and changes no user field; and once resend_verification
\* or forgot_password has issued a new token for a user, the token of that
\* kind the user held before is no longer accepted, in that state and ever
\* after.
C27_TokensSingleUseAndSuperseded ==
    [][\A t \in 1..minted :
          /\ VerifyRejects(t) => VerifyRejects(t)'
          /\ ResetRejects(t) => ResetRejects(t)'
          /\ (\E publishOk \in BOOLEAN :
                 /\ VerifyEmailOutcome(t, FALSE, publishOk).response.code = 200
                 /\ VerifyEmail(t, FALSE, publishOk)) => VerifyRejects(t)'
          /\ (\E new_password \in Passwords :
                 /\ ResetPasswordOutcome(t, new_password, FALSE).response.code = 200
                 /\ ResetPassword(t, new_password, FALSE)) => ResetRejects(t)'
          /\ \A e \in DOMAIN accounts :
                /\ ( /\ accounts[e].verification_token = t
                     /\ \E publishOk \in BOOLEAN : ResendVerification(e, publishOk)
                     /\ minted' /= minted ) => VerifyRejects(t)'
                /\ ( /\ accounts[e].password_reset_token = t
                     /\ \E publishOk \in BOOLEAN : ForgotPassword(e, publishOk)
                     /\ minted' /= minted ) => ResetRejects(t)'
      ]_vars

\* C27 witness: the only account was signed up (token 1), reset its password
\* with reset token 2 and was then sent a second verification token (3); the
\* used reset token and the superseded verification token are both refused,
\* the live verification token is accepted.
C27_Witness ==
    \E e \in Emails :
        /\ DOMAIN accounts = {e}
        /\ minted = 3
        /\ accounts[e].verification_token = 3
        /\ accounts[e].password_reset_token = NoToken
        /\ accounts[e].hashed_password = GetPasswordHash("p2")
        /\ VerifyRejects(1) /\ ResetRejects(2)
        /\ VerifyEmailOutcome(3, FALSE, TRUE).response.code = 200

\* C28: the responses of forgot_password and resend_verification do not
\* depend on the account state: whether or not an account with the given email
\* exists, is active or is verified, and whether or not the event publisher
\* fails, each call returns its one success response.
C28_ResponsesHideAccountState ==
    \A email \in Emails, publishOk \in BOOLEAN :
        /\ ForgotPasswordOutcome(email, publishOk).response =
              Response("forgot_password", 200,
                  "If an account with that email exists, a password reset link has been sent")
        /\ ResendVerificationOutcome(email, publishOk).response =
              Response("resend_verification", 200,
                  "If your account requires verification, a new email has been sent")

\* C28 witness: one email has no account, the other has an active unverified
\* account for which both calls issue a token while the publisher fails; the
\* two emails get the same responses.
C28_Witness ==
    \E known, unknown \in Emails :
        /\ unknown \notin DOMAIN accounts
        /\ known \in DOMAIN accounts
        /\ accounts[known].is_active /\ ~accounts[known].is_verified
        /\ ForgotPasswordOutcome(known, FALSE).minted = minted + 1
        /\ ResendVerificationOutcome(known, FALSE).minted = minted + 1
        /\ ForgotPasswordOutcome(unknown, TRUE).accounts = accounts
        /\ ForgotPasswordOutcome(known, FALSE).response =
              ForgotPasswordOutcome(unknown, TRUE).response
        /\ ResendVerificationOutcome(known, FALSE).response =
              ResendVerificationOutcome(unknown, TRUE).response

\* C30: logging out ends the login session: once logout has succeeded with the
\* access token of a login, refresh called with the refresh token of the same
\* login fails and issues no new tokens.
C30_LogoutEndsSession ==
    \A access \in blacklist :
        access.type = "access" =>
            \A expired \in BOOLEAN :
                RefreshFailed(CreateRefreshToken(access.sub, access.serial), expired)

\* C31: when delete requests for the same job run concurrently for its owner,
\* in every interleaving of their steps each request ends in success or
\* NotFound, never in an unhandled error, and once all of them have ended the
\* record and both files are gone.
C31_ConcurrentDeletesEndCleanly ==
    /\ \A d \in DOMAIN deletes :
          (deletes[d].pc = "done" /\ deletes[d].response.code /= 403) =>
              deletes[d].response.code \in {200, 404}
    /\ \A d \in DOMAIN deletes :
          ( /\ deletes[d].response.code = 200
            /\ \A e \in DOMAIN deletes : deletes[e].pc = "done" ) =>
              /\ deletes[d].job_id \notin DOMAIN jobs
              /\ deletes[d].job.input_file_path \notin files
              /\ deletes[d].job.output_file_path \notin files

\* C32: after any interleaving of concurrent signup and update_username
\* requests no two user records share an email and no two share a username:
\* the check-then-write steps of the handlers never let two requests that ask
\* for the same email or username both succeed.
C32_EmailsAndUsernamesUnique ==
    \A u, v \in DOMAIN users :
        u /= v => /\ users[u].email /= users[v].email
                  /\ users[u].username /= users[v].username

\* C33: the fields of one worker health summary are mutually consistent
\* although they come from separate sequential probes: in every summary,
\* audio_processing_queue_ok = true implies available = true and
\* "audio_processing" is in queues, also when workers start or stop between
\* the probes.
C33_SummaryFieldsConsistent ==
    summary.pc = "done" =>
        (summary.result.audio_processing_queue_ok =>
            /\ summary.result.available
            /\ "audio_processing" \in summary.result.queues)

====
